---- MODULE Spec2Model ----
(***************************************************************************)
(* Model of src/native/dalvik_system_Zygote.cc: the zygote (the service),  *)
(* its SIGCHLD handler (the Reaper), the two fork entry points and the     *)
(* specialization sequence a forked child runs (the Sequencer).            *)
(*                                                                         *)
(* Build modelled: HAVE_ANDROID_OS and __linux__ defined (lines 191-241), *)
(* MountExternalStorage as compiled (#if 0 branch absent, lines 333-336). *)
(* The kernel is modelled by what the called primitive does to the        *)
(* process: fork copies the credentials, setuid from 0 to non-0 clears    *)
(* the effective set and, without keep-capabilities, the permitted set,   *)
(* capset (version 1) installs 32-bit sets that must not exceed the old   *)
(* permitted set, waitpid(WNOHANG) reaps one zombie.                      *)
(*                                                                         *)
(* The handler runs on the interrupted thread: while it runs the spawn    *)
(* code of the zygote is suspended and SIGCHLD is blocked (sa_flags = 0). *)
(***************************************************************************)
EXTENDS Integers, Sequences, FiniteSets, TLC

\* ---------------------------------------------------------------- bounds
\* Process ids the OS hands out to the zygote's children (reused once reaped).
MaxPid == 2
\* Longest resource-limit array of a request.
MaxRlimits == 2

\* ------------------------------------------------------ program constants
MOUNT_EXTERNAL_NONE == 0
MOUNT_EXTERNAL_SINGLEUSER == 1
MOUNT_EXTERNAL_MULTIUSER == 2
DEBUG_ENABLE_DEBUGGER == 1
\* First bit above the five known debug flags (1 << 5).
DebugKnownLimit == 32
\* Width of the fields of __user_cap_data_struct under _LINUX_CAPABILITY_VERSION.
CapDataWidth == 32
\* Length of one resource-limit tuple.
RlimitTupleLen == 3
\* _PATH_BSHELL of <paths.h> on Android.
_PATH_BSHELL == "/system/bin/sh"

Pids == 1..MaxPid

\* Capability bit positions followed by the model: one below and one at or
\* above CapDataWidth (a jlong mask has bits 0..63).
CapBits == {0, 32}
\* The zygote runs as root with every capability, in no supplementary group
\* but its own.
ZygoteCaps == CapBits
ZygoteGroups == {0}

Range(s) == {s[i] : i \in 1..Len(s)}
Last(s) == s[Len(s)]
NoDup(s) == \A i, j \in 1..Len(s) : s[i] = s[j] => i = j

\* A mask b is set in flag word f (b a power of two, f >= 0).
HasBit(f, b) == (f \div b) % 2 = 1

\* The int64 -> __u32 conversion of capdata.effective = effective.
LowWord(caps) == {b \in caps : b < CapDataWidth}

\* ------------------------------------------------------------- requests
\* One resource-limit tuple of the right length and one that is too short.
RlimitEntries == {<<7, 1024, 4096>>, <<7, 1024>>}
RECURSIVE SeqsUpTo(_, _)
SeqsUpTo(S, n) ==
  IF n = 0 THEN {<<>>}
  ELSE LET shorter == SeqsUpTo(S, n - 1)
       IN shorter \cup {Append(s, e) : s \in {t \in shorter : Len(t) = n - 1}, e \in S}
\* A Java array argument: NULL, or its elements.
NullArray == [isNull |-> TRUE, elems |-> <<>>]
Array(s) == [isNull |-> FALSE, elems |-> s]
RlimitArrays == {NullArray} \cup {Array(s) : s \in SeqsUpTo(RlimitEntries, MaxRlimits)}

Uids == {0, 1000}
TargetGids == {1000}
GidArrays == {NullArray, Array(<<3003>>)}
DebugFlags == {0, 33}
\* The three modes of the enum and a value outside it.
MountModes ==
  {MOUNT_EXTERNAL_NONE, MOUNT_EXTERNAL_SINGLEUSER, MOUNT_EXTERNAL_MULTIUSER, 3}
CapMasks == SUBSET CapBits

\* Arguments of nativeForkAndSpecialize and nativeForkSystemServer.
AppRequest(uid, gid, gids, dbg, rl, mnt) ==
  [uid |-> uid, gid |-> gid, gids |-> gids, debug_flags |-> dbg, rlimits |-> rl,
   mount_external |-> mnt, se_info |-> "default"]
SsRequest(uid, gid, gids, dbg, rl, perm, eff) ==
  [uid |-> uid, gid |-> gid, gids |-> gids, debug_flags |-> dbg, rlimits |-> rl,
   permittedCapabilities |-> perm, effectiveCapabilities |-> eff]

\* Every request over the value sets above (one spawn is followed).
AllAppRequests ==
  {AppRequest(u, g, gs, d, rl, m) :
     u \in Uids, g \in TargetGids, gs \in GidArrays, d \in DebugFlags,
     rl \in RlimitArrays, m \in MountModes}
AllSsRequests ==
  {SsRequest(u, g, gs, d, rl, pm, ef) :
     u \in Uids, g \in TargetGids, gs \in GidArrays, d \in DebugFlags,
     rl \in RlimitArrays, pm \in CapMasks, ef \in CapMasks}

\* The requests of the many-spawn specification: one application, one
\* system server.
AppRequests == {AppRequest(1000, 1000, Array(<<3003>>), 0, NullArray, 0)}
SsRequests ==
  {SsRequest(1000, 1000, NullArray, 0, Array(<< <<7, 1024, 4096>> >>), {0}, {0})}

\* What the two entry points pass to ForkAndSpecializeCommon.
AppArgs(r) ==
  [uid |-> r.uid, gid |-> r.gid, gids |-> r.gids, debug_flags |-> r.debug_flags,
   rlimits |-> r.rlimits, permitted |-> {}, effective |-> {},
   mount_external |-> r.mount_external, se_info |-> r.se_info,
   is_system_server |-> FALSE]
SsArgs(r) ==
  [uid |-> r.uid, gid |-> r.gid, gids |-> r.gids, debug_flags |-> r.debug_flags,
   rlimits |-> r.rlimits, permitted |-> r.permittedCapabilities,
   effective |-> r.effectiveCapabilities,
   mount_external |-> MOUNT_EXTERNAL_NONE, se_info |-> "NULL",
   is_system_server |-> TRUE]
NoArgs == AppArgs(AppRequest(0, 0, NullArray, 0, NullArray, 0))

VARIABLES
  zState,            \* the zygote: "alive", "killed" (SIGKILL), "aborted" (LOG(FATAL))
  gSystemServerPid,  \* the static of line 48
  zSigchld,          \* the zygote's SIGCHLD disposition: "SIG_DFL" or "SigChldHandler"
  pending,           \* a SIGCHLD is pending for the zygote
  pc,                \* where the zygote's spawn code stands
  call,              \* the fork call in progress or last made
  ret,               \* what the last call returned (0: it has not returned)
  hpc,               \* where the handler stands: "off", "loop", "ret"
  hpid,              \* the handler's local pid
  hStart,            \* history: the zombies when the running handler started
  hLate,             \* history: the children that died while it ran
  hReaped,           \* history: the pids it reaped, in order
  termBy,            \* history: what terminated the zygote
  noRandomizeNeeded, \* the platform: what NeedsNoRandomizeWorkaround() returns
  child              \* the process at each pid

vars == <<zState, gSystemServerPid, zSigchld, pending, pc, call, ret,
          hpc, hpid, hStart, hLate, hReaped, termBy, noRandomizeNeeded, child>>
zygoteVars == <<zState, gSystemServerPid, zSigchld, pc, ret, hpc, hpid, hReaped, termBy>>

\* ------------------------------------------------------------ processes
\* A Java string argument: null, or its characters.
NullString == [isNull |-> TRUE, chars |-> ""]
JString(s) == [isNull |-> FALSE, chars |-> s]
Commands == {NullString, JString("echo 1"), JString("")}
\* The image a process of the runtime executes, as its argv.
RuntimeImage == <<"app_process", "-Xzygote">>
\* No call of nativeExecShell made.
NoExec == [outcome |-> "none", javaCommand |-> NullString, utf_ok |-> TRUE,
           execv_ok |-> TRUE]

\* A pid no child of the zygote holds.
FreeChild ==
  [status |-> "free", args |-> NoArgs, pc |-> "none", uid |-> 0, gid |-> 0,
   groups |-> {}, keepcaps |-> FALSE, permitted |-> {}, effective |-> {},
   nrlim |-> 0, secontext |-> "none", sigchld |-> "SIG_DFL",
   unknownFlagsLogged |-> FALSE, calls |-> <<>>,
   image |-> <<>>, exitStatus |-> 0, exec |-> NoExec]

\* fork() in the child: a copy of the zygote, about to run line 383.
ForkedChild(args, disposition) ==
  [status |-> "running", args |-> args, pc |-> "KeepCaps", uid |-> 0, gid |-> 0,
   groups |-> ZygoteGroups, keepcaps |-> FALSE, permitted |-> ZygoteCaps,
   effective |-> ZygoteCaps, nrlim |-> 0, secontext |-> "zygote",
   sigchld |-> disposition, unknownFlagsLogged |-> FALSE, calls |-> <<>>,
   image |-> RuntimeImage, exitStatus |-> 0, exec |-> NoExec]

NoCall == [kind |-> "none", args |-> NoArgs, pid |-> 0, early |-> FALSE]
NoTermination == [how |-> "none", pid |-> 0, failed |-> "none"]

Fresh ==
  /\ zState = "alive"
  /\ gSystemServerPid = 0
  /\ zSigchld = "SIG_DFL"
  /\ pending = FALSE
  /\ pc = "idle"
  /\ call = NoCall
  /\ ret = 0
  /\ hpc = "off"
  /\ hpid = 0
  /\ hStart = {}
  /\ hLate = {}
  /\ hReaped = <<>>
  /\ termBy = NoTermination
  /\ child = [p \in Pids |-> FreeChild]

\* A platform that does not need the workaround of lines 406-415 (any but
\* ARM before Linux 3.4).
Init == Fresh /\ noRandomizeNeeded = FALSE

\* Either platform.
SeqInit == Fresh /\ noRandomizeNeeded \in BOOLEAN

\* ------------------------------------------------- the child's sequence
\* The child made primitive call op, which succeeded or not.
Called(c, op, ok) == [c EXCEPT !.calls = Append(@, [op |-> op, ok |-> ok])]
\* LOG(FATAL) / PLOG(FATAL) / CHECK: the process aborts.
Abort(c) == [c EXCEPT !.status = "zombie"]
\* The statement is done: on to the next one, unless it aborted.
Then(c, next) == IF c.status = "running" THEN [c EXCEPT !.pc = next] ELSE c

EnableKeepCapabilities(c, ok) ==
  IF ok THEN [Called(c, "prctl(PR_SET_KEEPCAPS)", TRUE) EXCEPT !.keepcaps = TRUE]
  ELSE Abort(Called(c, "prctl(PR_SET_KEEPCAPS)", FALSE))

\* Lines 385-388.
KeepCapsAlways(c, ok) == EnableKeepCapabilities(c, ok)
KeepCapsUnlessRoot(c, ok) ==
  IF c.args.uid # 0 THEN EnableKeepCapabilities(c, ok) ELSE c

\* Lines 300-337 as compiled: the #if 0 branch is absent.
MountIgnored(c) == c
MountExternalStorage(c) ==
  IF c.args.mount_external = MOUNT_EXTERNAL_NONE THEN c
  ELSE Abort(Called(c, "UNIMPLEMENTED", FALSE))

SetGids(c, ok) ==
  IF c.args.gids.isNull THEN c
  ELSE IF ok THEN [Called(c, "setgroups", TRUE) EXCEPT !.groups = Range(c.args.gids.elems)]
  ELSE Abort(Called(c, "setgroups", FALSE))

\* The loop condition of SetRLimits: another tuple is left.
RLimitsLeft(c) == ~c.args.rlimits.isNull /\ c.nrlim < Len(c.args.rlimits.elems)

\* One iteration of the loop of SetRLimits, on tuple c.nrlim + 1.
SetRLimitUnchecked(c, ok) ==
  LET javaRlimit == c.args.rlimits.elems[c.nrlim + 1]
  IN IF Len(javaRlimit) # RlimitTupleLen THEN Abort(Called(c, "rlimit size", FALSE))
     ELSE [Called(c, "setrlimit", ok) EXCEPT !.nrlim = @ + 1]
SetRLimit(c, ok) ==
  LET javaRlimit == c.args.rlimits.elems[c.nrlim + 1]
  IN IF Len(javaRlimit) # RlimitTupleLen THEN Abort(Called(c, "rlimit size", FALSE))
     ELSE IF ok THEN [Called(c, "setrlimit", TRUE) EXCEPT !.nrlim = @ + 1]
     ELSE Abort(Called(c, "setrlimit", FALSE))

SetgidUnchecked(c, ok) ==
  IF ok THEN [Called(c, "setgid", TRUE) EXCEPT !.gid = c.args.gid]
  ELSE Called(c, "setgid", FALSE)
Setgid(c, ok) ==
  IF ok THEN [Called(c, "setgid", TRUE) EXCEPT !.gid = c.args.gid]
  ELSE Abort(Called(c, "setgid", FALSE))

\* setuid(2) for a process with uid 0: leaving uid 0 clears the effective
\* set and, unless keep-capabilities is set, the permitted set.
KernelSetuid(c, uid) ==
  LET leavesRoot == c.uid = 0 /\ uid # 0
  IN [c EXCEPT !.uid = uid,
               !.effective = IF leavesRoot THEN {} ELSE @,
               !.permitted = IF leavesRoot /\ ~c.keepcaps THEN {} ELSE @]

Setuid(c, ok) ==
  IF ok THEN KernelSetuid(Called(c, "setuid", TRUE), c.args.uid)
  ELSE Abort(Called(c, "setuid", FALSE))

\* Lines 406-415: where the workaround is needed, it may fail.
NoRandomizeWorkaround(c, needed, ok) ==
  IF needed THEN Called(c, "personality", ok) ELSE c

\* capset(2) with a version 1 header: the new permitted set must lie in the
\* old one and the new effective set in the new permitted one.
KernelCapsetAllows(c, permitted, effective) ==
  permitted \subseteq c.permitted /\ effective \subseteq permitted

SetCapabilitiesBothPermitted(c, ok) ==
  LET permitted == LowWord(c.args.permitted)
      effective == LowWord(c.args.permitted)
  IN IF ok /\ KernelCapsetAllows(c, permitted, effective)
     THEN [Called(c, "capset", TRUE) EXCEPT !.permitted = permitted,
                                            !.effective = effective]
     ELSE Abort(Called(c, "capset", FALSE))
SetCapabilities(c, ok) ==
  LET permitted == LowWord(c.args.permitted)
      effective == LowWord(c.args.effective)
  IN IF ok /\ KernelCapsetAllows(c, permitted, effective)
     THEN [Called(c, "capset", TRUE) EXCEPT !.permitted = permitted,
                                            !.effective = effective]
     ELSE Abort(Called(c, "capset", FALSE))

SetSchedulerPolicyUnchecked(c, ok) == Called(c, "set_sched_policy", ok)
SetSchedulerPolicy(c, ok) ==
  IF ok THEN Called(c, "set_sched_policy", TRUE)
  ELSE Abort(Called(c, "set_sched_policy", FALSE))

\* Lines 421-443.
SetContext(c, ok) ==
  IF ok THEN [Called(c, "selinux_android_setcontext", TRUE)
                EXCEPT !.secontext = IF c.args.is_system_server
                                     THEN "system_server" ELSE "app"]
  ELSE Abort(Called(c, "selinux_android_setcontext", FALSE))

EnableDebugger(c, ok1, ok2) ==
  Called(Called(c, "prctl(PR_SET_DUMPABLE)", ok1), "setrlimit(RLIMIT_CORE)", ok2)

EnableDebugFeatures(c, ok1, ok2) ==
  LET d == IF HasBit(c.args.debug_flags, DEBUG_ENABLE_DEBUGGER)
           THEN EnableDebugger(c, ok1, ok2) ELSE c
  IN [d EXCEPT !.unknownFlagsLogged = (c.args.debug_flags \div DebugKnownLimit) # 0]

\* Lines 134-143. sigaction(2) fails only for a bad signal number or a bad
\* pointer; with SIGCHLD and a struct on the stack it succeeds, so the
\* warnings of lines 128-130 and 140-142 are never reached.
UnsetSkipped(c) == c
UnsetSigChldHandler(c) ==
  [Called(c, "sigaction(SIGCHLD)", TRUE) EXCEPT !.sigchld = "SIG_DFL"]

\* The order of the statements of the child branch, lines 383-456.
SequenceOrder ==
  <<"KeepCaps", "Mount", "SetGids", "SetRLimits", "setgid", "setuid", "Personality",
    "SetCapabilities", "SetSchedulerPolicy", "SetContext", "InitAfterFork",
    "EnableDebugFeatures", "UnsetSigChldHandler", "entered">>
After(where) ==
  SequenceOrder[1 + CHOOSE i \in 1..Len(SequenceOrder) : SequenceOrder[i] = where]

\* The child at pid p becomes d. Its death raises SIGCHLD in a living zygote
\* whose disposition is the handler (blocked, so left pending, while the
\* handler runs).
ChildBecomes(p, d) ==
  LET died == d.status = "zombie" /\ zState = "alive"
  IN /\ child' = [child EXCEPT ![p] = d]
     /\ pending' = (pending \/ (died /\ zSigchld = "SigChldHandler"))
     /\ call' = IF died /\ pc = "forked" /\ call.pid = p
                THEN [call EXCEPT !.early = TRUE] ELSE call
     /\ hLate' = IF died /\ hpc # "off" THEN hLate \cup {p} ELSE hLate
     /\ UNCHANGED <<zygoteVars, hStart, noRandomizeNeeded>>

At(p, where) == child[p].status = "running" /\ child[p].pc = where

ChildKeepCaps(p) ==
  /\ At(p, "KeepCaps")
  /\ \E ok \in BOOLEAN :
       ChildBecomes(p, Then(KeepCapsUnlessRoot(child[p], ok), After("KeepCaps")))

ChildMount(p) ==
  /\ At(p, "Mount")
  /\ ChildBecomes(p, Then(MountExternalStorage(child[p]), After("Mount")))

ChildSetGids(p) ==
  /\ At(p, "SetGids")
  /\ \E ok \in BOOLEAN :
       ChildBecomes(p, Then(SetGids(child[p], ok), After("SetGids")))

ChildSetRLimit(p) ==
  /\ At(p, "SetRLimits")
  /\ RLimitsLeft(child[p])
  /\ \E ok \in BOOLEAN : ChildBecomes(p, SetRLimit(child[p], ok))

ChildSetRLimitsDone(p) ==
  /\ At(p, "SetRLimits")
  /\ ~RLimitsLeft(child[p])
  /\ ChildBecomes(p, Then(child[p], After("SetRLimits")))

ChildSetgid(p) ==
  /\ At(p, "setgid")
  /\ \E ok \in BOOLEAN :
       ChildBecomes(p, Then(Setgid(child[p], ok), After("setgid")))

ChildSetuid(p) ==
  /\ At(p, "setuid")
  /\ \E ok \in BOOLEAN :
       ChildBecomes(p, Then(Setuid(child[p], ok), After("setuid")))

ChildPersonality(p) ==
  /\ At(p, "Personality")
  /\ \E ok \in BOOLEAN :
       ChildBecomes(p, Then(NoRandomizeWorkaround(child[p], noRandomizeNeeded, ok),
                            After("Personality")))

ChildSetCapabilities(p) ==
  /\ At(p, "SetCapabilities")
  /\ \E ok \in BOOLEAN :
       ChildBecomes(p, Then(SetCapabilities(child[p], ok), After("SetCapabilities")))

ChildSetSchedulerPolicy(p) ==
  /\ At(p, "SetSchedulerPolicy")
  /\ \E ok \in BOOLEAN :
       ChildBecomes(p, Then(SetSchedulerPolicy(child[p], ok),
                            After("SetSchedulerPolicy")))

ChildSetContext(p) ==
  /\ At(p, "SetContext")
  /\ \E ok \in BOOLEAN :
       ChildBecomes(p, Then(SetContext(child[p], ok), After("SetContext")))

ChildInitAfterFork(p) ==
  /\ At(p, "InitAfterFork")
  /\ ChildBecomes(p, Then(child[p], After("InitAfterFork")))

ChildEnableDebugFeatures(p) ==
  /\ At(p, "EnableDebugFeatures")
  /\ \E ok1, ok2 \in BOOLEAN :
       ChildBecomes(p, Then(EnableDebugFeatures(child[p], ok1, ok2),
                            After("EnableDebugFeatures")))

\* Lines 455-456: the handler is unset and the child runs as its role.
ChildUnsetSigChldHandler(p) ==
  /\ At(p, "UnsetSigChldHandler")
  /\ ChildBecomes(p, Then(UnsetSigChldHandler(child[p]), After("UnsetSigChldHandler")))

\* The specialized process exits or crashes.
ChildExit(p) ==
  /\ At(p, "entered")
  /\ ChildBecomes(p, [child[p] EXCEPT !.status = "zombie"])

\* -------------------------------------------------------- nativeExecShell
\* ScopedUtfChars (line 58): c_str() is NULL for a null string and when the
\* characters cannot be got.
ScopedUtfChars(javaCommand, utf_ok) ==
  IF javaCommand.isNull \/ ~utf_ok THEN NullString ELSE javaCommand
\* Lines 62-66 for a command that is not NULL: execv replaces the image, or
\* fails and exit(127) follows.
ExecOrExit(c, command, execv_ok) ==
  IF execv_ok
  THEN [c EXCEPT !.image = <<_PATH_BSHELL, "-c", command.chars>>,
                 !.exec.outcome = "replaced"]
  ELSE [c EXCEPT !.status = "zombie", !.exitStatus = 127, !.exec.outcome = "exited"]
\* Lines 57-67, in process c.
ExecShellUnchecked(c, javaCommand, utf_ok, execv_ok) ==
  ExecOrExit([c EXCEPT !.exec = [outcome |-> "none", javaCommand |-> javaCommand,
                                 utf_ok |-> utf_ok, execv_ok |-> execv_ok]],
             ScopedUtfChars(javaCommand, utf_ok), execv_ok)
Zygote_nativeExecShell(c, javaCommand, utf_ok, execv_ok) ==
  LET command == ScopedUtfChars(javaCommand, utf_ok)
      d == [c EXCEPT !.exec = [outcome |-> "none", javaCommand |-> javaCommand,
                               utf_ok |-> utf_ok, execv_ok |-> execv_ok]]
  IN IF command.isNull THEN [d EXCEPT !.exec.outcome = "returned"]
     ELSE ExecOrExit(d, command, execv_ok)

\* A specialized process, still the runtime, calls nativeExecShell.
ChildExecShell(p) ==
  /\ At(p, "entered")
  /\ child[p].image = RuntimeImage
  /\ child[p].exec = NoExec
  /\ \E javaCommand \in Commands, utf_ok, execv_ok \in BOOLEAN :
       ChildBecomes(p, Zygote_nativeExecShell(child[p], javaCommand, utf_ok, execv_ok))

\* ----------------------------------------------------------- the zygote
ZygoteRuns == zState = "alive" /\ hpc = "off"

\* waitpid reaps the zombie at pid p.
Reap(ch, p) == [ch EXCEPT ![p] = FreeChild]
Zombies == {p \in Pids : child[p].status = "zombie"}
\* The call whose failure ended the child at p inside the sequence ("none"
\* when it died as its role).
FailedIn(p) ==
  IF child[p].pc # "entered" /\ child[p].calls # <<>> THEN Last(child[p].calls).op
  ELSE "none"

\* SetSigChldHandler moved before the pre-fork step.
ArmThenPreZygoteFork(kind, args) ==
  /\ ZygoteRuns
  /\ pc = "idle"
  /\ zSigchld' = "SigChldHandler"
  /\ \/ /\ pc' = "fork"
        /\ call' = [kind |-> kind, args |-> args, pid |-> 0, early |-> FALSE]
        /\ ret' = 0
        /\ UNCHANGED <<zState, termBy>>
     \/ /\ zState' = "aborted"
        /\ termBy' = [how |-> "PreZygoteFork", pid |-> 0, failed |-> "none"]
        /\ UNCHANGED <<pc, call, ret>>
  /\ UNCHANGED <<gSystemServerPid, pending, hpc, hpid, hStart, hLate, hReaped, child, noRandomizeNeeded>>

\* Lines 367-373: the pre-fork step, then SetSigChldHandler.
ForkAndSpecializeCommon(kind, args) ==
  /\ ZygoteRuns
  /\ pc = "idle"
  /\ \/ /\ zSigchld' = "SigChldHandler"
        /\ pc' = "fork"
        /\ call' = [kind |-> kind, args |-> args, pid |-> 0, early |-> FALSE]
        /\ ret' = 0
        /\ UNCHANGED <<zState, termBy>>
     \/ /\ zState' = "aborted"
        /\ termBy' = [how |-> "PreZygoteFork", pid |-> 0, failed |-> "none"]
        /\ UNCHANGED <<zSigchld, pc, call, ret>>
  /\ UNCHANGED <<gSystemServerPid, pending, hpc, hpid, hStart, hLate, hReaped, child, noRandomizeNeeded>>

Zygote_nativeForkAndSpecialize(r) == ForkAndSpecializeCommon("app", AppArgs(r))

Zygote_nativeForkSystemServer(r) == ForkAndSpecializeCommon("system_server", SsArgs(r))

\* Line 379, in the parent: a child at a free pid, or -1.
Fork ==
  /\ ZygoteRuns
  /\ pc = "fork"
  /\ \/ \E p \in Pids :
          /\ child[p].status = "free"
          /\ child' = [child EXCEPT ![p] = ForkedChild(call.args, zSigchld)]
          /\ call' = [call EXCEPT !.pid = p]
     \/ /\ call' = [call EXCEPT !.pid = -1]
        /\ UNCHANGED child
  /\ pc' = "forked"
  /\ UNCHANGED <<zState, gSystemServerPid, zSigchld, pending, ret,
                 hpc, hpid, hStart, hLate, hReaped, termBy, noRandomizeNeeded>>

\* Lines 460 and 466: nativeForkAndSpecialize returns the pid.
ForkAndSpecializeReturn ==
  /\ ZygoteRuns
  /\ pc = "forked"
  /\ call.kind = "app"
  /\ ret' = call.pid
  /\ pc' = "idle"
  /\ UNCHANGED <<zState, gSystemServerPid, zSigchld, pending, call,
                 hpc, hpid, hStart, hLate, hReaped, termBy, child, noRandomizeNeeded>>

\* Line 476: if (pid > 0).
ForkedOrFailed(pid) == pid # 0
Forked(pid) == pid > 0

\* Lines 476-479 (the pid is published), or line 488 after a failed fork.
SystemServerPublish ==
  /\ ZygoteRuns
  /\ pc = "forked"
  /\ call.kind = "system_server"
  /\ \/ /\ Forked(call.pid)
        /\ gSystemServerPid' = call.pid
        /\ pc' = "recheck"
        /\ UNCHANGED ret
     \/ /\ ~Forked(call.pid)
        /\ ret' = call.pid
        /\ pc' = "idle"
        /\ UNCHANGED gSystemServerPid
  /\ UNCHANGED <<zState, zSigchld, pending, call,
                 hpc, hpid, hStart, hLate, hReaped, termBy, child, noRandomizeNeeded>>

\* Lines 483-488: waitpid(pid, WNOHANG) == pid is LOG(FATAL), else return.
SystemServerRecheck ==
  /\ ZygoteRuns
  /\ pc = "recheck"
  /\ \/ /\ call.pid \in Zombies
        /\ child' = Reap(child, call.pid)
        /\ zState' = "aborted"
        /\ termBy' = [how |-> "recheck", pid |-> call.pid,
                      failed |-> FailedIn(call.pid)]
        /\ UNCHANGED <<pc, ret>>
     \/ /\ call.pid \notin Zombies
        /\ ret' = call.pid
        /\ pc' = "idle"
        /\ UNCHANGED <<zState, termBy, child>>
  /\ UNCHANGED <<gSystemServerPid, zSigchld, pending, call,
                 hpc, hpid, hStart, hLate, hReaped, noRandomizeNeeded>>

\* ---------------------------------------------------------- the handler
\* Line 104.
IsAnyChild(pid) == pid > 0
IsSystemServer(pid) == pid = gSystemServerPid
\* Line 106: SIGKILL to itself ends the zygote at once.
KillSelfCaught == "alive"
KillSelf == "killed"
\* Line 74: while, so after a reaped child waitpid is called again.
ReapOnce == "ret"
AfterReap == "loop"

\* The pending SIGCHLD is delivered: SigChldHandler is entered.
SigChldDelivered ==
  /\ ZygoteRuns
  /\ pending
  /\ zSigchld = "SigChldHandler"
  /\ pending' = FALSE
  /\ hpc' = "loop"
  /\ hStart' = Zombies
  /\ hLate' = {}
  /\ hReaped' = <<>>
  /\ UNCHANGED <<zState, gSystemServerPid, zSigchld, pc, call, ret, hpid, termBy,
                 child, noRandomizeNeeded>>

\* Lines 74-108, one iteration: waitpid returns a zombie's pid, in any order.
SigChldHandlerReap(p) ==
  /\ zState = "alive"
  /\ hpc = "loop"
  /\ p \in Zombies
  /\ child' = Reap(child, p)
  /\ hpid' = p
  /\ hReaped' = Append(hReaped, p)
  /\ IF IsSystemServer(p)
     THEN /\ zState' = KillSelf
          /\ termBy' = [how |-> "SigChldHandler", pid |-> p,
                        failed |-> FailedIn(p)]
     ELSE UNCHANGED <<zState, termBy>>
  /\ hpc' = AfterReap
  /\ UNCHANGED <<gSystemServerPid, zSigchld, pending, pc, call, ret, hStart,
                 hLate, noRandomizeNeeded>>

\* Line 74: waitpid returns 0 (children left, none dead) or -1 (no child).
SigChldHandlerDrained ==
  /\ zState = "alive"
  /\ hpc = "loop"
  /\ Zombies = {}
  /\ hpid' = IF \E p \in Pids : child[p].status = "running" THEN 0 ELSE -1
  /\ hpc' = "ret"
  /\ UNCHANGED <<zState, gSystemServerPid, zSigchld, pending, pc, call, ret,
                 hStart, hLate, hReaped, termBy, child, noRandomizeNeeded>>

\* Lines 110-113: the warning when pid < 0, and the return.
SigChldHandlerReturn ==
  /\ zState = "alive"
  /\ hpc = "ret"
  /\ hpc' = "off"
  /\ hpid' = 0
  /\ hStart' = {}
  /\ hLate' = {}
  /\ hReaped' = <<>>
  /\ UNCHANGED <<zState, gSystemServerPid, zSigchld, pending, pc, call, ret,
                 termBy, child, noRandomizeNeeded>>

\* ------------------------------------------------------- specifications
ChildStep(p) ==
  \/ ChildKeepCaps(p)
  \/ ChildMount(p)
  \/ ChildSetGids(p)
  \/ ChildSetRLimit(p)
  \/ ChildSetRLimitsDone(p)
  \/ ChildSetgid(p)
  \/ ChildSetuid(p)
  \/ ChildPersonality(p)
  \/ ChildSetCapabilities(p)
  \/ ChildSetSchedulerPolicy(p)
  \/ ChildSetContext(p)
  \/ ChildInitAfterFork(p)
  \/ ChildEnableDebugFeatures(p)
  \/ ChildUnsetSigChldHandler(p)
  \/ ChildExit(p)

Running ==
  \/ Fork
  \/ ForkAndSpecializeReturn
  \/ SystemServerPublish
  \/ SystemServerRecheck
  \/ SigChldDelivered
  \/ \E p \in Pids : SigChldHandlerReap(p)
  \/ SigChldHandlerDrained
  \/ SigChldHandlerReturn
  \/ \E p \in Pids : ChildStep(p)

\* Any number of spawns of the two fixed requests.
Next ==
  \/ \E r \in AppRequests : Zygote_nativeForkAndSpecialize(r)
  \/ \E r \in SsRequests : Zygote_nativeForkSystemServer(r)
  \/ Running

Spec == Init /\ [][Next]_vars

\* The zygote's first spawn, over every request.
SeqNext ==
  \/ call.kind = "none" /\ \E r \in AllAppRequests : Zygote_nativeForkAndSpecialize(r)
  \/ call.kind = "none" /\ \E r \in AllSsRequests : Zygote_nativeForkSystemServer(r)
  \/ Running

SeqSpec == SeqInit /\ [][SeqNext]_vars

\* The zygote's first spawn, of either fixed request, with a specialized
\* process that may call nativeExecShell.
ShellNext ==
  \/ call.kind = "none" /\ \E r \in AppRequests : Zygote_nativeForkAndSpecialize(r)
  \/ call.kind = "none" /\ \E r \in SsRequests : Zygote_nativeForkSystemServer(r)
  \/ Running
  \/ \E p \in Pids : ChildExecShell(p)

ShellSpec == Init /\ [][ShellNext]_vars

\* ================================================================ claims

\* C1: when the system server dies after fork() and before its pid is
\* written to gSystemServerPid (the handler may reap it in that window),
\* nativeForkSystemServer does not return its pid: the zygote is terminated.
C1_EarlyDeathNeverReturned ==
  (call.kind = "system_server" /\ call.early) => ~(pc = "idle" /\ ret = call.pid)

\* C2: a living zygote at rest (no call in progress, no SIGCHLD pending, the
\* handler not running) never has a dead system server registered: the death
\* of the registered child has terminated it.
C2_NoDeadRegisteredSingleton ==
  (zState = "alive" /\ pc = "idle" /\ hpc = "off" /\ ~pending /\ gSystemServerPid # 0)
    => /\ child[gSystemServerPid].status = "running"
       /\ child[gSystemServerPid].args.is_system_server

\* C3: an invocation of the handler that reaps the registered pid kills the
\* zygote at that reap, once, whatever was reaped before it and whatever is
\* left to reap; a terminated zygote takes no further step.
C3_SingletonReapTerminatesOnce ==
  /\ [](\A i \in 1..Len(hReaped) :
          IsSystemServer(hReaped[i]) =>
            /\ zState = "killed"
            /\ i = Len(hReaped)
            /\ termBy.how = "SigChldHandler"
            /\ termBy.pid = hReaped[i])
  /\ [][zState # "alive" =>
          UNCHANGED <<zygoteVars, pending, call, hStart, hLate>>]_vars

\* A sibling was reaped before the system server in the invocation that
\* killed the zygote.
C3_Witness == zState = "killed" /\ Len(hReaped) = 2

\* C4: an invocation of the handler reaps every child that was a zombie when
\* it started before it returns, each once, and nothing but those and the
\* children that died while it ran; none of them is left a zombie.
C4_ReaperDrain ==
  /\ NoDup(hReaped)
  /\ Range(hReaped) \subseteq hStart \cup hLate
  /\ \A p \in Range(hReaped) : child[p].status = "free"
  /\ hpc = "ret" => hStart \subseteq Range(hReaped)
  /\ (hpc = "ret" /\ hLate = {}) => Len(hReaped) = Cardinality(hStart)

\* Two deaths behind one delivery, both reaped.
C4_Witness ==
  hpc = "ret" /\ Cardinality(hStart) = 2 /\ hLate = {} /\ Len(hReaped) = 2

\* ------------------------------------------------ reading a child's calls
Children == {p \in Pids : child[p].status # "free"}
Calls(c, op) == {i \in 1..Len(c.calls) : c.calls[i].op = op}
Succeeded(c, op) == {i \in Calls(c, op) : c.calls[i].ok}
Failed(c, op) == {i \in Calls(c, op) : ~c.calls[i].ok}
\* The child has completed the sequence and runs, or ran, as its role.
Entered(c) == c.pc = "entered"

\* C5: setuid is only ever called after a setgid that succeeded, and a
\* failed setgid ends the child there, its user id still the zygote's.
C5_GidBeforeUid ==
  \A p \in Children :
    LET c == child[p]
    IN /\ \A i \in Calls(c, "setuid") : \E j \in Succeeded(c, "setgid") : j < i
       /\ Failed(c, "setgid") # {} =>
            /\ c.status = "zombie"
            /\ c.pc = "setgid"
            /\ c.uid = 0
            /\ Calls(c, "setuid") = {}

\* A child has changed its group id and then its user id.
C5_Witness ==
  \E p \in Children :
    /\ Succeeded(child[p], "setuid") # {}
    /\ child[p].uid # 0
    /\ child[p].gid # 0

\* The two orderings C6 states: the keep-capabilities mark is made, before
\* the identity change, exactly for a non-zero target uid; capset is called
\* only after setgid and setuid have both succeeded.
C6_Ordering(c) ==
  /\ c.pc # "KeepCaps" => (Calls(c, "prctl(PR_SET_KEEPCAPS)") # {} <=> c.args.uid # 0)
  /\ \A i \in Calls(c, "prctl(PR_SET_KEEPCAPS)") :
       \A j \in Calls(c, "setgid") \cup Calls(c, "setuid") : i < j
  /\ \A i \in Calls(c, "capset") :
       /\ \E j \in Succeeded(c, "setgid") : j < i
       /\ \E j \in Succeeded(c, "setuid") : j < i

\* C6 as claimed: the orderings, and no child under a non-zero user id that
\* still holds the zygote's full capability set.
C6_NeverFullCapsUnderNewUid ==
  \A p \in Children :
    /\ C6_Ordering(child[p])
    /\ ~(child[p].uid # 0 /\ child[p].permitted = ZygoteCaps)

\* C6 as amended: the orderings; from setuid to capset a child with a
\* non-zero uid has an empty effective set and the zygote's full permitted
\* set, and after capset its sets lie within the masks of the request.
C6_PermittedKeptUntilCapset ==
  \A p \in Children :
    LET c == child[p]
    IN /\ C6_Ordering(c)
       /\ (c.uid # 0 /\ Succeeded(c, "capset") = {}) =>
            c.effective = {} /\ c.permitted = ZygoteCaps
       /\ Succeeded(c, "capset") # {} =>
            c.permitted \subseteq c.args.permitted /\ c.effective \subseteq c.args.effective

\* A child between setuid and capset, under its new user id.
C6_Witness ==
  \E p \in Children :
    /\ child[p].status = "running"
    /\ child[p].pc = "SetCapabilities"
    /\ child[p].uid # 0
    /\ child[p].keepcaps

\* C7: a child with a non-zero target uid that has completed the sequence
\* holds exactly the permitted and effective masks of the request, bits
\* 32..63 included.
C7_ExactCapabilities ==
  \A p \in Children :
    (Entered(child[p]) /\ child[p].args.uid # 0) =>
      /\ child[p].permitted = child[p].args.permitted
      /\ child[p].effective = child[p].args.effective

\* What C8 counts as privilege: supplementary groups, group id 0, user id 0,
\* permitted capabilities and, apart, effective capabilities.
Privileges(c) ==
  {<<"group", g>> : g \in c.groups}
    \cup (IF c.gid = 0 THEN {<<"gid", 0>>} ELSE {})
    \cup (IF c.uid = 0 THEN {<<"uid", 0>>} ELSE {})
    \cup {<<"permitted", b>> : b \in c.permitted}
EffectivePrivileges(c) == {<<"effective", b>> : b \in c.effective}
ZygotePrivileges ==
  Privileges(ForkedChild(NoArgs, "SigChldHandler"))
    \cup EffectivePrivileges(ForkedChild(NoArgs, "SigChldHandler"))
\* A step of the child at p.
StepOf(p) == child[p].status = "running" /\ child'[p].status # "free"
          /\ child'[p] # child[p]

\* C8 as claimed: a privilege of the zygote that a child has lost is not
\* held by it after any later step.
C8_NeverRegained ==
  [][\A p \in Pids : StepOf(p) =>
       \A x \in ZygotePrivileges :
         x \notin Privileges(child[p]) \cup EffectivePrivileges(child[p])
           => x \notin Privileges(child'[p]) \cup EffectivePrivileges(child'[p])]_vars

\* C8 as amended: groups, group id 0, user id 0 and permitted capabilities
\* are never regained; the effective set grows at capset alone, where it
\* becomes the effective mask of the request cut to the permitted set.
C8_OnlyEffectiveRegained ==
  [][\A p \in Pids : StepOf(p) =>
       /\ \A x \in ZygotePrivileges :
            x \notin Privileges(child[p]) => x \notin Privileges(child'[p])
       /\ \/ child'[p].effective \subseteq child[p].effective
          \/ /\ child[p].pc = "SetCapabilities"
             /\ child'[p].effective \subseteq child[p].args.effective
             /\ child'[p].effective \subseteq child'[p].permitted]_vars

\* capset has given back an effective capability that setuid had cleared.
C8_Witness ==
  \E p \in Children :
    /\ child[p].uid # 0
    /\ Succeeded(child[p], "capset") # {}
    /\ child[p].effective # {}

\* C9: a resource-limit tuple that fails, or is not of length 3, ends the
\* child at that tuple: no later tuple, no identity change, no entry; a
\* child that changes identity or enters has applied every tuple.
RlimitFailures(c) == Failed(c, "setrlimit") \cup Failed(c, "rlimit size")
RlimitCount(c) == IF c.args.rlimits.isNull THEN 0 ELSE Len(c.args.rlimits.elems)
C9_RlimitsAllOrNothing ==
  \A p \in Children :
    LET c == child[p]
    IN /\ RlimitFailures(c) # {} =>
            /\ c.status = "zombie"
            /\ c.pc = "SetRLimits"
            /\ RlimitFailures(c) = {Len(c.calls)}
            /\ Cardinality(Succeeded(c, "setrlimit")) = c.nrlim
            /\ c.nrlim < RlimitCount(c)
            /\ Calls(c, "setgid") \cup Calls(c, "setuid") = {}
       /\ (Entered(c) \/ Calls(c, "setgid") # {}) =>
            /\ c.nrlim = RlimitCount(c)
            /\ Cardinality(Succeeded(c, "setrlimit")) = RlimitCount(c)

\* The second of two tuples failed, after the first was applied.
C9_Witness ==
  \E p \in Children :
    /\ RlimitFailures(child[p]) # {}
    /\ child[p].nrlim = 1
    /\ RlimitCount(child[p]) = 2

\* The steps C10 names, by the call that fails, and the statement each is.
FatalStep ==
  [op \in {"setgroups", "setrlimit", "rlimit size", "setgid", "setuid", "capset",
           "selinux_android_setcontext"} |->
     CASE op = "setgroups" -> "SetGids"
       [] op \in {"setrlimit", "rlimit size"} -> "SetRLimits"
       [] op = "capset" -> "SetCapabilities"
       [] op = "selinux_android_setcontext" -> "SetContext"
       [] OTHER -> op]
\* A failed call of those is the child's last, and the child died at it.
FailureStops(c) ==
  \A i \in 1..Len(c.calls) :
    (c.calls[i].op \in DOMAIN FatalStep /\ ~c.calls[i].ok) =>
      /\ i = Len(c.calls)
      /\ c.status = "zombie"
      /\ c.pc = FatalStep[c.calls[i].op]
ByChildDeath == termBy.how \in {"SigChldHandler", "recheck"}

SecurityPrimitives ==
  {"setgroups", "setrlimit", "setrlimit(RLIMIT_CORE)", "setgid", "setuid",
   "prctl(PR_SET_KEEPCAPS)", "capset", "set_sched_policy"}

\* C11: the label is applied after the groups, every resource limit, setgid,
\* setuid, the capability sets and the scheduler class, and between the label
\* and the entry point the child calls no group, resource-limit, identity,
\* capability or scheduler primitive, whatever the debug flags.
C11_LabelLast ==
  \A p \in Children :
    LET c == child[p]
    IN \A i \in Calls(c, "selinux_android_setcontext") :
         /\ ~c.args.gids.isNull => \E j \in Succeeded(c, "setgroups") : j < i
         /\ Cardinality({j \in Succeeded(c, "setrlimit") : j < i}) = RlimitCount(c)
         /\ \A op \in {"setgid", "setuid", "capset", "set_sched_policy"} :
              \E j \in Succeeded(c, op) : j < i
         /\ \A j \in (i + 1)..Len(c.calls) : c.calls[j].op \notin SecurityPrimitives

\* C12: every change of gSystemServerPid is made by nativeForkSystemServer in
\* the zygote right after a fork that gave a pid, and takes it from 0 to
\* that pid: it is never changed again, whatever calls follow.
C12_RegistryWrittenOnce ==
  [][gSystemServerPid' # gSystemServerPid =>
       /\ gSystemServerPid = 0
       /\ gSystemServerPid' = call.pid
       /\ call.pid > 0
       /\ call.kind = "system_server"
       /\ pc = "forked"
       /\ ZygoteRuns
       /\ UNCHANGED child]_vars

\* C13: a fork() that fails creates no process and changes neither the
\* registry nor the zygote's life; the call goes from there straight to its
\* return (no recheck), returns -1 and changes nothing else; the zygote,
\* alive and outside its handler, then accepts a next spawn.
C13_ForkFailureRefused ==
  /\ [](call.pid = -1 =>
          /\ pc \in {"forked", "idle"}
          /\ pc = "idle" => ret = -1
          /\ (pc = "idle" /\ ZygoteRuns) =>
               ENABLED (\E r \in AppRequests : Zygote_nativeForkAndSpecialize(r)))
  /\ [][(call'.pid = -1 /\ call.pid # -1) =>
          UNCHANGED <<child, gSystemServerPid, zState, zSigchld>>]_vars
  /\ [][(call.pid = -1 /\ pc = "forked" /\ pc' # pc) =>
          /\ pc' = "idle"
          /\ ret' = -1
          /\ UNCHANGED <<child, gSystemServerPid, zState, zSigchld>>]_vars

\* nativeForkSystemServer has returned -1 after a failed fork although a pid
\* was free; nothing is registered and the zygote lives.
C13_Witness ==
  /\ call.kind = "system_server"
  /\ call.pid = -1
  /\ pc = "idle"
  /\ ret = -1
  /\ gSystemServerPid = 0
  /\ zState = "alive"
  /\ \E p \in Pids : child[p].status = "free"

Reaped(p) == child[p].status = "zombie" /\ child'[p].status = "free"
\* The child at p is a system server whose pid line 479 has published.
RegisteredSingleton(p) ==
  /\ child[p].status # "free"
  /\ child[p].args.is_system_server
  /\ ~(pc = "forked" /\ call.pid = p)

\* C15: a registered system server is reaped by one path, the handler or the
\* recheck of line 484, and that reap terminates the zygote; once terminated
\* the zygote stays as it is, so nothing reaps or terminates a second time.
C15_OneReapTerminates ==
  /\ [][\A p \in Pids : (Reaped(p) /\ RegisteredSingleton(p)) =>
          /\ zState = "alive" /\ zState' # "alive"
          /\ termBy'.pid = p
          /\ \/ hpc = "loop" /\ termBy'.how = "SigChldHandler"
             \/ hpc = "off" /\ pc = "recheck" /\ termBy'.how = "recheck"]_vars
  /\ [][zState # "alive" => UNCHANGED <<zygoteVars, pending, call, hStart, hLate>>
                            /\ \A p \in Pids : ~Reaped(p)]_vars

\* The process at p makes its call of nativeExecShell in this step.
ExecStep(p) ==
  /\ child[p].status = "running"
  /\ child[p].exec.outcome = "none"
  /\ child'[p].exec.outcome # "none"
\* A process record apart from what nativeExecShell may touch.
Besides(c) ==
  [c EXCEPT !.exec = NoExec, !.status = "running", !.exitStatus = 0,
            !.image = RuntimeImage]

\* C16: nativeExecShell ends in one of three ways, decided by its inputs: a
\* readable command and an execv that succeeds replace the image by the
\* shell and there is no return; a readable command and an execv that fails
\* make the process exit with status 127, nothing else changed; a null or
\* unreadable command makes it return, the process running and its image and
\* everything else as before.
C16_ExecShellOutcomes ==
  /\ [][\A p \in Pids : ExecStep(p) =>
          LET c == child[p]
              d == child'[p]
              readable == ~d.exec.javaCommand.isNull /\ d.exec.utf_ok
          IN /\ Besides(d) = Besides(c)
             /\ UNCHANGED zygoteVars
             /\ \A q \in Pids \ {p} : child'[q] = child[q]
             /\ (readable /\ d.exec.execv_ok) =>
                  /\ d.exec.outcome = "replaced"
                  /\ d.image = <<_PATH_BSHELL, "-c", d.exec.javaCommand.chars>>
                  /\ d.status = "running" /\ d.exitStatus = 0
             /\ (readable /\ ~d.exec.execv_ok) =>
                  /\ d.exec.outcome = "exited"
                  /\ d.status = "zombie" /\ d.exitStatus = 127
                  /\ d.image = c.image
             /\ ~readable =>
                  /\ d.exec.outcome = "returned"
                  /\ d.status = "running" /\ d.exitStatus = 0
                  /\ d.image = c.image]_vars
  /\ [][\A p \in Pids :
          (child[p].exec.outcome # "none" /\ child'[p].status # "free") =>
             child'[p].exec = child[p].exec /\ child'[p].image = child[p].image]_vars

\* A process called nativeExecShell with a readable command, execv failed
\* and it exited with status 127; the zygote lives.
C16_Witness ==
  \E p \in Children :
    /\ child[p].exec.outcome = "exited"
    /\ ~child[p].exec.javaCommand.isNull
    /\ child[p].exitStatus = 127
    /\ child[p].status = "zombie"
    /\ zState = "alive"

\* C17: a pre-fork step that fails ends the request where it stands, before
\* SetSigChldHandler and fork: no process is created then or later, and the
\* disposition, the registry and the call record are as before. Conversely
\* a process is created only by the one fork of a call, and from then on it
\* changes only by its own steps: no step of the zygote's code alters a
\* running child.
C17_RefusedBeforeForkOrCommitted ==
  /\ [][(termBy'.how = "PreZygoteFork" /\ termBy.how # "PreZygoteFork") =>
          /\ pc = "idle" /\ hpc = "off"
          /\ zState' # "alive"
          /\ UNCHANGED <<child, zSigchld, gSystemServerPid, pc, call, ret>>]_vars
  /\ [][termBy.how = "PreZygoteFork" =>
          \A p \in Pids : child[p].status = "free" => child'[p].status = "free"]_vars
  /\ [][\A p \in Pids : (child[p].status = "free" /\ child'[p].status # "free") =>
          /\ pc = "fork" /\ call.pid = 0
          /\ pc' = "forked" /\ call'.pid = p
          /\ \A q \in Pids \ {p} : child'[q] = child[q]]_vars
  /\ [][\A p \in Pids : (child[p].status = "running" /\ child'[p] # child[p]) =>
          UNCHANGED <<zState, gSystemServerPid, zSigchld, pc, ret, hpc, hpid, hReaped>>]_vars

\* The pre-fork step of the zygote's first request failed: the handler was
\* never installed and there is no child.
C17_Witness ==
  /\ termBy.how = "PreZygoteFork"
  /\ zState = "aborted"
  /\ zSigchld = "SIG_DFL"
  /\ call = NoCall
  /\ Children = {}

C19_OnlySingletonDeathTerminates ==
  [][\A p \in Pids : (Reaped(p) /\ zState = "alive" /\ zState' # "alive") =>
       /\ child[p].args.is_system_server
       /\ gSystemServerPid # 0]_vars

\* The calls of steps 1, 3, 4, 5, 7, 8 and 9, and the statement each is.
StrictStep ==
  [op \in DOMAIN FatalStep \cup {"prctl(PR_SET_KEEPCAPS)", "set_sched_policy"} |->
     CASE op = "prctl(PR_SET_KEEPCAPS)" -> "KeepCaps"
       [] op = "set_sched_policy" -> "SetSchedulerPolicy"
       [] OTHER -> FatalStep[op]]

\* C20: a failed call of steps 1, 3, 4, 5, 7, 8 or 9 is the child's last and
\* the child died at that step, so a child that entered has none; the
\* keep-capabilities mark is attempted only for a non-zero uid; the
\* personality workaround and the debug-flag step leave the child running
\* at the next statement whatever fails or is unknown in them.
C20_StrictAndLenientSteps ==
  /\ [](\A p \in Children :
          LET c == child[p]
          IN /\ \A i \in 1..Len(c.calls) :
                  (c.calls[i].op \in DOMAIN StrictStep /\ ~c.calls[i].ok) =>
                    /\ i = Len(c.calls)
                    /\ c.status = "zombie"
                    /\ c.pc = StrictStep[c.calls[i].op]
             /\ Entered(c) =>
                  \A i \in 1..Len(c.calls) :
                    c.calls[i].op \in DOMAIN StrictStep => c.calls[i].ok
             /\ Calls(c, "prctl(PR_SET_KEEPCAPS)") # {} => c.args.uid # 0)
  /\ [][\A p \in Pids :
          /\ (At(p, "Personality") /\ child'[p] # child[p]) =>
               child'[p].status = "running" /\ child'[p].pc = "SetCapabilities"
          /\ (At(p, "EnableDebugFeatures") /\ child'[p] # child[p]) =>
               child'[p].status = "running" /\ child'[p].pc = "UnsetSigChldHandler"]_vars

\* A child whose personality call failed went on and died at the scheduler
\* step, which failed.
C20_Witness ==
  \E p \in Children :
    /\ Failed(child[p], "personality") # {}
    /\ Failed(child[p], "set_sched_policy") # {}
    /\ child[p].status = "zombie"
    /\ child[p].pc = "SetSchedulerPolicy"

====
